---- MODULE Spec2Model ----
(***************************************************************************)
(* Funnel analysis engine (src/funnel_analyzer.py).                        *)
(*                                                                         *)
(* The source computes with Python floats (IEEE-754 binary64).  TLC has    *)
(* only 32-bit integers, so a float is modelled exactly, as a record       *)
(* [neg, m, e] standing for (-1)^neg * m * 2^e, the mantissa m being a     *)
(* natural number held as a little-endian sequence of 14-bit limbs.  Every *)
(* float operation of the source is the exact operation followed by        *)
(* round-to-nearest-even to 53 bits, as the hardware does it.              *)
(***************************************************************************)
EXTENDS Integers, Sequences, FiniteSets, TLC

(***************************************************************************)
(* Natural numbers of arbitrary size: little-endian limbs, no high zeros.  *)
(***************************************************************************)
LimbBits == 14

RECURSIVE Pow2(_)
Pow2(n) ==
    IF n = 0 THEN 1 ELSE 2 * Pow2(n - 1)

LimbBase == Pow2(LimbBits)

RECURSIVE BigNorm(_)
BigNorm(a) ==
    IF a = <<>> THEN <<>>
    ELSE IF a[Len(a)] = 0 THEN BigNorm(SubSeq(a, 1, Len(a) - 1))
    ELSE a

RECURSIVE BigFromNat(_)
BigFromNat(n) ==
    IF n = 0 THEN <<>> ELSE <<n % LimbBase>> \o BigFromNat(n \div LimbBase)

RECURSIVE BigToNat(_)
BigToNat(a) ==
    IF a = <<>> THEN 0 ELSE Head(a) + LimbBase * BigToNat(Tail(a))

RECURSIVE BigMulCarry(_, _, _)
BigMulCarry(a, k, carry) ==
    IF a = <<>> THEN BigFromNat(carry)
    ELSE LET v == Head(a) * k + carry
         IN  <<v % LimbBase>> \o BigMulCarry(Tail(a), k, v \div LimbBase)

\* a * k for a small natural k
BigMulSmall(a, k) ==
    BigNorm(BigMulCarry(a, k, 0))

RECURSIVE BigDivRem(_, _)
BigDivRem(a, p) ==
    IF a = <<>> THEN [q |-> <<>>, r |-> 0]
    ELSE LET hi == BigDivRem(Tail(a), p)
             v  == hi.r * LimbBase + Head(a)
         IN  [q |-> <<v \div p>> \o hi.q, r |-> v % p]

\* quotient and remainder of a by a small positive p
BigDivSmall(a, p) ==
    LET d == BigDivRem(a, p)
    IN  [q |-> BigNorm(d.q), r |-> d.r]

RECURSIVE BigAddCarry(_, _, _)
BigAddCarry(a, b, carry) ==
    IF a = <<>> /\ b = <<>> THEN BigFromNat(carry)
    ELSE LET x == IF a = <<>> THEN 0 ELSE Head(a)
             y == IF b = <<>> THEN 0 ELSE Head(b)
             v == x + y + carry
         IN  <<v % LimbBase>>
             \o BigAddCarry(IF a = <<>> THEN <<>> ELSE Tail(a),
                            IF b = <<>> THEN <<>> ELSE Tail(b),
                            v \div LimbBase)

BigAdd(a, b) ==
    BigNorm(BigAddCarry(a, b, 0))

RECURSIVE BigSubBorrow(_, _, _)
BigSubBorrow(a, b, borrow) ==
    IF a = <<>> THEN <<>>
    ELSE LET y == IF b = <<>> THEN 0 ELSE Head(b)
             v == Head(a) - y - borrow
         IN  <<IF v < 0 THEN v + LimbBase ELSE v>>
             \o BigSubBorrow(Tail(a),
                             IF b = <<>> THEN <<>> ELSE Tail(b),
                             IF v < 0 THEN 1 ELSE 0)

\* a - b for a >= b
BigSub(a, b) ==
    BigNorm(BigSubBorrow(a, b, 0))

RECURSIVE BigCmpFrom(_, _, _)
BigCmpFrom(a, b, i) ==
    IF i = 0 THEN 0
    ELSE IF a[i] > b[i] THEN 1
    ELSE IF a[i] < b[i] THEN -1
    ELSE BigCmpFrom(a, b, i - 1)

\* -1, 0, 1 as a < b, a = b, a > b
BigCmp(a, b) ==
    IF Len(a) > Len(b) THEN 1
    ELSE IF Len(a) < Len(b) THEN -1
    ELSE BigCmpFrom(a, b, Len(a))

BigShl(a, s) ==
    IF a = <<>> THEN <<>>
    ELSE [i \in 1..(s \div LimbBits) |-> 0] \o BigMulSmall(a, Pow2(s % LimbBits))

BigShr(a, s) ==
    IF s \div LimbBits >= Len(a) THEN <<>>
    ELSE BigDivSmall(SubSeq(a, (s \div LimbBits) + 1, Len(a)), Pow2(s % LimbBits)).q

RECURSIVE NatBitLen(_)
NatBitLen(n) ==
    IF n = 0 THEN 0 ELSE 1 + NatBitLen(n \div 2)

BigBitLen(a) ==
    IF a = <<>> THEN 0 ELSE LimbBits * (Len(a) - 1) + NatBitLen(a[Len(a)])

\* bit i (from 0) of a
BigBit(a, i) ==
    IF (i \div LimbBits) + 1 > Len(a) THEN 0
    ELSE (a[(i \div LimbBits) + 1] \div Pow2(i % LimbBits)) % 2

\* some bit below bit n of a is set
BigLowNonZero(a, n) ==
    \/ \E j \in 1..Len(a) : j <= n \div LimbBits /\ a[j] # 0
    \/ /\ (n \div LimbBits) + 1 <= Len(a)
       /\ a[(n \div LimbBits) + 1] % Pow2(n % LimbBits) # 0

(***************************************************************************)
(* binary64 values and the operations the source applies to them.          *)
(***************************************************************************)
MantBits == 53

FZero == [neg |-> FALSE, m |-> <<>>, e |-> 0]

\* round-to-nearest-even of (-1)^neg * (M + sticky) * 2^e to 53 bits;
\* sticky says that a non-zero amount below one unit of M was discarded
FRound(neg, M, e, sticky) ==
    LET L == BigBitLen(M)
    IN  IF M = <<>> THEN FZero
        ELSE IF L <= MantBits
        THEN [neg |-> neg, m |-> BigShl(M, MantBits - L), e |-> e - (MantBits - L)]
        ELSE LET s    == L - MantBits
                 q    == BigShr(M, s)
                 half == BigBit(M, s - 1) = 1
                 low  == BigLowNonZero(M, s - 1) \/ sticky
                 up   == half /\ (low \/ BigBit(q, 0) = 1)
                 q2   == IF up THEN BigAdd(q, <<1>>) ELSE q
             IN  IF BigBitLen(q2) > MantBits
                 THEN [neg |-> neg, m |-> BigShr(q2, 1), e |-> e + s + 1]
                 ELSE [neg |-> neg, m |-> q2, e |-> e + s]

Abs(n) ==
    IF n < 0 THEN -n ELSE n

\* float(n) for an int n
FFromInt(n) ==
    FRound(n < 0, BigFromNat(Abs(n)), 0, FALSE)

FNeg(x) ==
    IF x.m = <<>> THEN x ELSE [x EXCEPT !.neg = ~x.neg]

DivShift == 6 * LimbBits

\* c / p, Python true division of two ints (c >= 0, p > 0), correctly rounded
FDivInt(c, p) ==
    LET d == BigDivSmall(BigShl(BigFromNat(c), DivShift), p)
    IN  FRound(FALSE, d.q, 0 - DivShift, d.r # 0)

\* x * k for a float x and an int k
FMulInt(x, k) ==
    IF k = 0 \/ x.m = <<>> THEN FZero
    ELSE FRound(x.neg # (k < 0), BigMulSmall(x.m, Abs(k)), x.e, FALSE)

\* the exact sum a + b, not rounded: [neg, m, e] with m of any length
FExactAdd(a, b) ==
    LET emin == IF a.e < b.e THEN a.e ELSE b.e
        A    == BigShl(a.m, a.e - emin)
        B    == BigShl(b.m, b.e - emin)
        c    == BigCmp(A, B)
    IN  IF a.m = <<>> THEN b
        ELSE IF b.m = <<>> THEN a
        ELSE IF a.neg = b.neg THEN [neg |-> a.neg, m |-> BigAdd(A, B), e |-> emin]
        ELSE IF c = 0 THEN FZero
        ELSE IF c > 0 THEN [neg |-> a.neg, m |-> BigSub(A, B), e |-> emin]
        ELSE [neg |-> b.neg, m |-> BigSub(B, A), e |-> emin]

\* a - b
FSub(a, b) ==
    LET d == FExactAdd(a, FNeg(b))
    IN  FRound(d.neg, d.m, d.e, FALSE)

\* a > b
FGt(a, b) ==
    LET d == FExactAdd(a, FNeg(b))
    IN  d.m # <<>> /\ ~d.neg

\* round(x, 1): the decimal with one digit nearest to x, ties to the even
\* digit; the result is k/10 (as a float), returned as the integer k
Round1(x) ==
    LET M    == BigMulSmall(x.m, 10)
        s    == 0 - x.e
        q    == BigToNat(BigShr(M, s))
        half == s > 0 /\ BigBit(M, s - 1) = 1
        low  == s > 1 /\ BigLowNonZero(M, s - 1)
        k    == IF half /\ (low \/ q % 2 = 1) THEN q + 1 ELSE q
    IN  IF x.m = <<>> THEN 0
        ELSE IF x.neg THEN 0 - k ELSE k

RECURSIVE BigMul(_, _)
BigMul(a, b) ==
    IF a = <<>> \/ b = <<>> THEN <<>>
    ELSE BigAdd(BigMulSmall(a, Head(b)), <<0>> \o BigMul(a, Tail(b)))

\* a * b for two floats
FMul(a, b) ==
    IF a.m = <<>> \/ b.m = <<>> THEN FZero
    ELSE FRound(a.neg # b.neg, BigMul(a.m, b.m), a.e + b.e, FALSE)

\* a + b
FAdd(a, b) ==
    LET d == FExactAdd(a, b)
    IN  FRound(d.neg, d.m, d.e, FALSE)

\* x / n for a float x and an int n > 0
FDivSmall(x, n) ==
    LET d == BigDivSmall(BigShl(x.m, DivShift), n)
    IN  FRound(x.neg, d.q, x.e - DivShift, d.r # 0)

\* c / p, Python true division of two ints of either sign (p > 0)
FDivSigned(c, p) ==
    IF c < 0 THEN FNeg(FDivInt(0 - c, p)) ELSE FDivInt(c, p)

\* int(x): the integer part of x, towards zero
FTrunc(x) ==
    LET n == IF x.e >= 0 THEN BigToNat(BigShl(x.m, x.e))
             ELSE BigToNat(BigShr(x.m, 0 - x.e))
    IN  IF x.neg THEN 0 - n ELSE n

\* the element of a set of one element; {e(v) : v \in {value}} holds e for the
\* value, which is computed once
Only(singleton) ==
    CHOOSE element \in singleton : TRUE

\* a variant without the floor of 1
AtLeastOne_absent(n) ==
    n

\* max(1, n)
AtLeastOne(n) ==
    IF n < 1 THEN 1 ELSE n

(***************************************************************************)
(* The caller's session (src/app.py) and the bounds of the model.          *)
(***************************************************************************)
MaxStages == 3

StageNames == <<"Visitor", "Lead", "MQL", "SQL", "Customer">>

\* a count that is not a number (a str read from a CSV cell)
NonNumeric == -1

CountValues == {0, 29, 49, 50, 51, NonNumeric}

Thresholds == {-5, 0, 2, 35, 42}

NoCall == [called |-> FALSE]

VARIABLES
    funnel_stages,         \* FunnelAnalyzer.funnel_stages
    session_funnel_data,   \* the funnel mapping held by the caller, in key order
    session_threshold,     \* the threshold of the latest analyze_funnel call
    session_results,       \* what the latest analyze_funnel call returned or raised
    earlier_call,          \* the first call made on the same funnel mapping, once a later one exists
    impact_analysis,       \* what calculate_potential_impact returned for session_results
    benchmark_comparison,  \* what get_benchmark_comparison returned for session_results
    random_state,          \* the module-level random generator: the draws it yields next
    clock,                 \* the calendar day datetime.now() falls on, as a day number
    generated,             \* the latest generate_funnel_data call: arguments, locals, outcome
    earlier_generated,     \* the generate_funnel_data call before the latest one
    historical_data,       \* the latest generate_historical_data call
    source_breakdown,      \* the latest generate_traffic_source_breakdown call
    client,                \* AIInsights.client: "None" or the OpenAI client
    insights               \* the latest generate_insights call: arguments and outcome

analyzer_vars == <<funnel_stages, session_funnel_data, session_threshold, session_results,
                   earlier_call, impact_analysis, benchmark_comparison>>

generator_vars == <<random_state, clock, generated, earlier_generated, historical_data,
                    source_breakdown>>

insights_vars == <<client, insights>>

vars == <<analyzer_vars, generator_vars, insights_vars>>

(***************************************************************************)
(* FunnelAnalyzer.analyze_funnel                                           *)
(*                                                                         *)
(* A funnel mapping is a sequence of [Stage, Count] in key order.  The     *)
(* rounded columns Conversion_Rate and Drop_off hold round(x, 1) in tenths *)
(* of a percent, and so does biggest_drop_value, which the source copies   *)
(* from the Drop_off column.                                               *)
(***************************************************************************)
Raised(r) == "raised" \in DOMAIN r

Returned(r) == "stage_analysis" \in DOMAIN r

InSeq(x, s) == \E j \in 1..Len(s) : s[j] = x

\* the exception a / b raises, "None" if it raises none
DivRaises(a, b) ==
    IF a = NonNumeric \/ b = NonNumeric THEN "TypeError"
    ELSE IF b = 0 THEN "ZeroDivisionError"
    ELSE "None"

\* a variant that reports the rate as a fraction, not as a percentage
ConversionRate_fraction(values, i) ==
    IF i = 1 THEN FFromInt(100)
    ELSE FDivInt(values[i], values[i - 1])

\* conversion_rate of stage i (from 1): 100.0 for the first stage
ConversionRate(values, i) ==
    IF i = 1 THEN FFromInt(100)
    ELSE FMulInt(FDivInt(values[i], values[i - 1]), 100)

\* a variant that loses the sign of the drop-off
DropOff_magnitude(values, i) ==
    IF i = 1 THEN FZero
    ELSE LET d == FSub(FFromInt(100), ConversionRate(values, i))
         IN  [d EXCEPT !.neg = FALSE]

\* drop_off of stage i (from 1): 0.0 for the first stage
DropOff(values, i) ==
    IF i = 1 THEN FZero
    ELSE FSub(FFromInt(100), ConversionRate(values, i))

\* a variant that also holds the first stage against the threshold
ExceedsThreshold_baseline(i, drop_off, threshold) ==
    FGt(drop_off, FFromInt(threshold))

\* a variant with the comparison turned round
ExceedsThreshold_reversed(i, drop_off, threshold) ==
    i > 1 /\ FGt(FFromInt(threshold), drop_off)

\* a variant that compares with the threshold kept from the call before
ExceedsThreshold_stale(i, drop_off, threshold) ==
    i > 1 /\ FGt(drop_off, FFromInt(session_threshold))

\* stage i is appended to problematic_stages
ExceedsThreshold(i, drop_off, threshold) ==
    i > 1 /\ FGt(drop_off, FFromInt(threshold))

StatusOf(stage, problematic_stages) ==
    IF InSeq(stage, problematic_stages) THEN "Needs Attention" ELSE "Healthy"

\* the loop over the stages from stage i on; acc holds the two lists so far
RECURSIVE StageLoop(_, _, _, _, _)
StageLoop(stages, values, threshold, i, acc) ==
    IF i > Len(stages) THEN acc
    ELSE IF i > 1 /\ DivRaises(values[i], values[i - 1]) # "None"
    THEN [raised |-> DivRaises(values[i], values[i - 1])]
    ELSE LET conversion_rate == ConversionRate(values, i)
             drop_off == DropOff(values, i)
             problematic_stages ==
                 IF ExceedsThreshold(i, drop_off, threshold)
                 THEN Append(acc.problematic_stages, stages[i])
                 ELSE acc.problematic_stages
             row == [Stage |-> stages[i],
                     Count |-> values[i],
                     Conversion_Rate |-> Round1(conversion_rate),
                     Drop_off |-> Round1(drop_off),
                     Status |-> StatusOf(stages[i], problematic_stages)]
         IN  Only({StageLoop(stages, values, threshold, i + 1, next)
                   : next \in {[stage_analysis |-> Append(acc.stage_analysis, row),
                                problematic_stages |-> problematic_stages]}})

OverallConversion(values) ==
    FMulInt(FDivInt(values[Len(values)], values[1]), 100)

IsBiggerDrop(row, biggest_drop_value) ==
    row.Drop_off > biggest_drop_value

\* the loop that identifies the biggest drop-off, from stage i on
RECURSIVE BiggestDropLoop(_, _, _)
BiggestDropLoop(stage_analysis, i, acc) ==
    IF i > Len(stage_analysis) THEN acc
    ELSE IF IsBiggerDrop(stage_analysis[i], acc.biggest_drop_value)
    THEN BiggestDropLoop(stage_analysis, i + 1,
                         [biggest_drop_stage |-> stage_analysis[i].Stage,
                          biggest_drop_value |-> stage_analysis[i].Drop_off])
    ELSE BiggestDropLoop(stage_analysis, i + 1, acc)

analyze_funnel(funnel_data, threshold) ==
    LET stages == [i \in 1..Len(funnel_data) |-> funnel_data[i].Stage]
        values == [i \in 1..Len(funnel_data) |-> funnel_data[i].Count]
    IN  Only({
        LET biggest == BiggestDropLoop(loop.stage_analysis, 2,
                                       [biggest_drop_stage |-> "None", biggest_drop_value |-> 0])
        IN  IF Raised(loop) THEN loop
            ELSE IF values = <<>> THEN [raised |-> "IndexError"]
            ELSE IF DivRaises(values[Len(values)], values[1]) # "None"
            THEN [raised |-> DivRaises(values[Len(values)], values[1])]
            ELSE [stage_analysis |-> loop.stage_analysis,
                  problematic_stages |-> loop.problematic_stages,
                  overall_conversion |-> OverallConversion(values),
                  biggest_drop_stage |-> biggest.biggest_drop_stage,
                  biggest_drop_value |-> biggest.biggest_drop_value,
                  threshold_used |-> threshold,
                  total_visitors |-> values[1],
                  final_conversions |-> values[Len(values)]]
        : loop \in {StageLoop(stages, values, threshold, 1,
                               [stage_analysis |-> <<>>, problematic_stages |-> <<>>])}})

(***************************************************************************)
(* FunnelAnalyzer.calculate_potential_impact                               *)
(*                                                                         *)
(* The returned dict is a function from stage names to entries.            *)
(***************************************************************************)
\* prev_stage_index: the row before the first row named stage (rows count from 1,
\* so 0 stands for the source's -1)
PrevStageIndex(stage_analysis, stage) ==
    (CHOOSE i \in 1..Len(stage_analysis) :
        /\ stage_analysis[i].Stage = stage
        /\ \A j \in 1..(i - 1) : stage_analysis[j].Stage # stage) - 1

ImprovedConversion(threshold) ==
    FDivSigned(100 - threshold, 100)

PotentialCount(prev_count, improved_conversion) ==
    FTrunc(FMulInt(improved_conversion, prev_count))

ImprovementPercentage(potential_increase, current_count) ==
    IF current_count > 0
    THEN FMulInt(FDivSigned(potential_increase, current_count), 100)
    ELSE FZero

ImpactEntry(analysis_results, stage) ==
    LET stage_analysis == analysis_results.stage_analysis
        prev_stage_index == PrevStageIndex(stage_analysis, stage)
        current_count == stage_analysis[prev_stage_index + 1].Count
        prev_count == stage_analysis[prev_stage_index].Count
        potential_count ==
            PotentialCount(prev_count, ImprovedConversion(analysis_results.threshold_used))
        potential_increase == potential_count - current_count
    IN  [current_count |-> current_count,
         potential_count |-> potential_count,
         potential_increase |-> potential_increase,
         improvement_percentage |-> ImprovementPercentage(potential_increase, current_count)]

calculate_potential_impact(analysis_results) ==
    LET stage_analysis == analysis_results.stage_analysis
        entered == {i \in 1..Len(stage_analysis) :
                       /\ InSeq(stage_analysis[i].Stage, analysis_results.problematic_stages)
                       /\ PrevStageIndex(stage_analysis, stage_analysis[i].Stage) >= 1}
    IN  [stage \in {stage_analysis[i].Stage : i \in entered} |->
            ImpactEntry(analysis_results, stage)]

(***************************************************************************)
(* FunnelAnalyzer.get_benchmark_comparison                                 *)
(***************************************************************************)
Benchmarks ==
    "Visitor to Lead" :> FFromInt(2) @@
    "Lead to MQL" :> FFromInt(50) @@
    "MQL to SQL" :> FFromInt(40) @@
    "Overall" :> FDivInt(4, 10)

\* a variant that names the pair in the reverse order
StageKey_reversed(prev_stage, current_stage) ==
    current_stage \o " to " \o prev_stage

StageKey(prev_stage, current_stage) ==
    prev_stage \o " to " \o current_stage

\* actual_rates: the rounded Conversion Rate column for each adjacent pair
\* (the later pair if two pairs share a key), overall_conversion under "Overall"
ActualRates(analysis_results) ==
    LET stage_analysis == analysis_results.stage_analysis
        KeyOf(i) == StageKey(stage_analysis[i - 1].Stage, stage_analysis[i].Stage)
        keys == {KeyOf(i) : i \in 2..Len(stage_analysis)} \cup {"Overall"}
        Last(key) == CHOOSE i \in 2..Len(stage_analysis) :
                         /\ KeyOf(i) = key
                         /\ \A j \in (i + 1)..Len(stage_analysis) : KeyOf(j) # key
    IN  [key \in keys |->
            IF key = "Overall" THEN analysis_results.overall_conversion
            ELSE FDivSigned(stage_analysis[Last(key)].Conversion_Rate, 10)]

\* a variant that counts a rate equal to the benchmark as above it
Performance_inclusive(actual_rate, benchmark_rate) ==
    IF ~FGt(benchmark_rate, actual_rate) THEN "Above" ELSE "Below"

Performance(actual_rate, benchmark_rate) ==
    IF FGt(actual_rate, benchmark_rate) THEN "Above" ELSE "Below"

get_benchmark_comparison(analysis_results) ==
    LET actual_rates == ActualRates(analysis_results)
    IN  [stage \in (DOMAIN actual_rates) \cap (DOMAIN Benchmarks) |->
            [actual |-> actual_rates[stage],
             benchmark |-> Benchmarks[stage],
             performance |-> Performance(actual_rates[stage], Benchmarks[stage]),
             difference |-> FSub(actual_rates[stage], Benchmarks[stage])]]

\* no DataGenerator method has been called
GeneratorIdle ==
    /\ random_state = <<>>
    /\ clock = 0
    /\ generated = NoCall
    /\ earlier_generated = NoCall
    /\ historical_data = NoCall
    /\ source_breakdown = NoCall

\* no OPENAI_API_KEY is set and generate_insights has not been called
InsightsIdle ==
    /\ client = "None"
    /\ insights = NoCall

(***************************************************************************)
(* The state machine: a caller that fills in a funnel mapping stage by     *)
(* stage and has it analysed, any number of times, under any threshold.    *)
(***************************************************************************)
Init ==
    /\ funnel_stages = <<"Visitor", "Lead", "MQL", "SQL">>
    /\ session_funnel_data = <<>>
    /\ session_threshold = 35
    /\ session_results = NoCall
    /\ earlier_call = NoCall
    /\ impact_analysis = NoCall
    /\ benchmark_comparison = NoCall
    /\ GeneratorIdle
    /\ InsightsIdle

\* one more Stage,Count row is put into the mapping
EnterStage(count) ==
    /\ Len(session_funnel_data) < MaxStages
    /\ session_funnel_data' =
           Append(session_funnel_data,
                  [Stage |-> StageNames[Len(session_funnel_data) + 1], Count |-> count])
    /\ session_results' = NoCall
    /\ earlier_call' = NoCall
    /\ impact_analysis' = NoCall
    /\ benchmark_comparison' = NoCall
    /\ insights' = NoCall
    /\ UNCHANGED client
    /\ UNCHANGED <<funnel_stages, session_threshold>>
    /\ UNCHANGED generator_vars

\* the caller starts over with an empty mapping
ClearData ==
    /\ session_funnel_data # <<>> \/ session_results # NoCall
    /\ session_funnel_data' = <<>>
    /\ session_results' = NoCall
    /\ earlier_call' = NoCall
    /\ impact_analysis' = NoCall
    /\ benchmark_comparison' = NoCall
    /\ insights' = NoCall
    /\ UNCHANGED client
    /\ UNCHANGED <<funnel_stages, session_threshold>>
    /\ UNCHANGED generator_vars

\* analysis_results = funnel_analyzer.analyze_funnel(funnel_data, threshold)
AnalyzeFunnel(threshold) ==
    /\ session_threshold' = threshold
    /\ session_results' = analyze_funnel(session_funnel_data, threshold)
    /\ earlier_call' =
           IF session_results = NoCall THEN NoCall
           ELSE IF earlier_call = NoCall
           THEN [threshold |-> session_threshold, results |-> session_results]
           ELSE earlier_call
    /\ impact_analysis' = NoCall
    /\ benchmark_comparison' = NoCall
    /\ insights' = NoCall
    /\ UNCHANGED client
    /\ UNCHANGED <<funnel_stages, session_funnel_data>>
    /\ UNCHANGED generator_vars

Next ==
    \/ \E count \in CountValues : EnterStage(count)
    \/ ClearData
    \/ \E threshold \in Thresholds : AnalyzeFunnel(threshold)

Spec == Init /\ [][Next]_vars

(***************************************************************************)
(* A second state machine: a caller that holds a whole funnel mapping,     *)
(* standard or not in its stage names, has it analysed and passes the      *)
(* result to calculate_potential_impact and get_benchmark_comparison.      *)
(***************************************************************************)
StageOrders ==
    {<<"Visitor", "Lead">>, <<"Visitor", "Lead", "MQL">>, <<"MQL", "SQL">>,
     <<"Lead", "Visitor">>, <<"Visitor", "Customer">>}

AnalysisCounts == {0, 1, 2, 5, 50, 250}

AnalysisThresholds == {35, 42}

ScenarioFunnel ==
    <<[Stage |-> "Visitor", Count |-> 1000], [Stage |-> "Lead", Count |-> 250],
      [Stage |-> "MQL", Count |-> 125], [Stage |-> "SQL", Count |-> 50]>>

\* a funnel whose drop-off, 42 exactly, is 42.00000000000001 in binary64
RoundingFunnel ==
    <<[Stage |-> "Visitor", Count |-> 50], [Stage |-> "Lead", Count |-> 29]>>

\* a funnel whose rate, 2.008...%, is above the benchmark 2.0 and rounds to 2.0
NearBenchmarkFunnel ==
    <<[Stage |-> "Visitor", Count |-> 249], [Stage |-> "Lead", Count |-> 5]>>

FunnelInputs ==
    {ScenarioFunnel, RoundingFunnel, NearBenchmarkFunnel} \cup
    UNION {{[i \in 1..Len(order) |-> [Stage |-> order[i], Count |-> counts[i]]] :
               counts \in [1..Len(order) -> AnalysisCounts]} : order \in StageOrders}

InitAnalysis ==
    /\ funnel_stages = <<"Visitor", "Lead", "MQL", "SQL">>
    /\ session_funnel_data \in FunnelInputs
    /\ session_threshold = 35
    /\ session_results = NoCall
    /\ earlier_call = NoCall
    /\ impact_analysis = NoCall
    /\ benchmark_comparison = NoCall
    /\ GeneratorIdle
    /\ InsightsIdle

\* impact_analysis = funnel_analyzer.calculate_potential_impact(analysis_results)
CalculatePotentialImpact ==
    /\ Returned(session_results)
    /\ impact_analysis' = [returned |-> calculate_potential_impact(session_results)]
    /\ UNCHANGED <<funnel_stages, session_funnel_data, session_threshold, session_results,
                   earlier_call, benchmark_comparison>>
    /\ UNCHANGED generator_vars
    /\ UNCHANGED insights_vars

\* comparison = funnel_analyzer.get_benchmark_comparison(analysis_results)
GetBenchmarkComparison ==
    /\ Returned(session_results)
    /\ benchmark_comparison' = [returned |-> get_benchmark_comparison(session_results)]
    /\ UNCHANGED <<funnel_stages, session_funnel_data, session_threshold, session_results,
                   earlier_call, impact_analysis>>
    /\ UNCHANGED generator_vars
    /\ UNCHANGED insights_vars

NextAnalysis ==
    \/ \E threshold \in AnalysisThresholds : AnalyzeFunnel(threshold)
    \/ CalculatePotentialImpact
    \/ GetBenchmarkComparison

SpecAnalysis == InitAnalysis /\ [][NextAnalysis]_vars

(***************************************************************************)
(* What the claims speak of, in exact rational arithmetic.                 *)
(***************************************************************************)
SessionStages == [i \in 1..Len(session_funnel_data) |-> session_funnel_data[i].Stage]

SessionValues == [i \in 1..Len(session_funnel_data) |-> session_funnel_data[i].Count]

Called == session_results # NoCall

HasReturned == Returned(session_results)

\* a non-empty mapping of stage names to non-negative integers
WellFormed ==
    /\ session_funnel_data # <<>>
    /\ \A i \in 1..Len(SessionValues) : SessionValues[i] >= 0

AllPositive == \A i \in 1..Len(SessionValues) : SessionValues[i] > 0

Flagged(results, i) == InSeq(SessionStages[i], results.problematic_stages)

NeedsAttention(results, i) == results.stage_analysis[i].Status = "Needs Attention"

\* 100 - 100 * count[i] / count[i-1] > t, for count[i-1] > 0
ExactDropExceeds(values, i, t) ==
    100 * values[i - 1] - 100 * values[i] > t * values[i - 1]

\* the exact drop-off of stage i is less than that of stage j (both predecessors > 0)
ExactDropLess(values, i, j) ==
    (values[i - 1] - values[i]) * values[j - 1] < (values[j - 1] - values[j]) * values[i - 1]

\* the stage with the largest exact drop-off, the earliest among equals;
\* "None" if no stage has an exact drop-off above 0
ExactBiggestDropStage(stages, values) ==
    LET best == {i \in 2..Len(values) :
                    /\ values[i] < values[i - 1]
                    /\ \A j \in 2..Len(values) : ~ExactDropLess(values, i, j)
                    /\ \A j \in 2..(i - 1) : ExactDropLess(values, j, i)}
    IN  IF best = {} THEN "None" ELSE stages[CHOOSE i \in best : TRUE]

\* k tenths is the exact drop-off of stage i
TenthsIsExactDrop(values, i, k) ==
    k * values[i - 1] = 1000 * (values[i - 1] - values[i])

\* the float x is num/den up to a relative error of 2^-40 (num >= 0, den > 0)
NearExact(x, num, den) ==
    LET target == [neg |-> TRUE, m |-> BigFromNat(num), e |-> 0]
        diff   == FExactAdd([neg |-> x.neg, m |-> BigMulSmall(x.m, den), e |-> x.e], target)
        excess == FExactAdd([neg |-> FALSE, m |-> diff.m, e |-> diff.e + 40], target)
    IN  excess.m = <<>> \/ excess.neg

StageIndex(stage) == CHOOSE i \in 1..Len(SessionStages) : SessionStages[i] = stage

(***************************************************************************)
(* C1: for a funnel with positive counts, a non-baseline stage is in       *)
(* problematic_stages, and has status Needs Attention, exactly when its    *)
(* drop-off 100 - 100*count[i]/count[i-1] is strictly above the threshold; *)
(* a drop-off equal to the threshold leaves the stage Healthy.             *)
(***************************************************************************)
C1_FlaggedIffDropExceedsThreshold ==
    (HasReturned /\ AllPositive) =>
        \A i \in 2..Len(SessionValues) :
            /\ Flagged(session_results, i) <=> ExactDropExceeds(SessionValues, i, session_threshold)
            /\ NeedsAttention(session_results, i) <=> ExactDropExceeds(SessionValues, i, session_threshold)

(***************************************************************************)
(* C2: for a funnel of at least 2 stages with positive counts and any      *)
(* threshold, negative ones included, the first stage has conversion rate  *)
(* 100.0, drop-off 0.0, status Healthy and is not in problematic_stages.   *)
(***************************************************************************)
C2_BaselineAlwaysHealthy ==
    (HasReturned /\ Len(session_funnel_data) >= 2 /\ AllPositive) =>
        /\ session_results.stage_analysis[1].Conversion_Rate = 1000
        /\ session_results.stage_analysis[1].Drop_off = 0
        /\ session_results.stage_analysis[1].Status = "Healthy"
        /\ ~Flagged(session_results, 1)

C2_Witness ==
    /\ HasReturned /\ Len(session_funnel_data) >= 2 /\ AllPositive
    /\ session_threshold < 0
    /\ session_results.problematic_stages # <<>>

(***************************************************************************)
(* C3: analyze_funnel raises nothing for a well-formed input: a non-empty  *)
(* mapping to non-negative integers, zero counts included, always gets a   *)
(* result.                                                                 *)
(***************************************************************************)
C3_NoErrorForWellFormedInput ==
    (Called /\ WellFormed) => HasReturned

(***************************************************************************)
(* C4: a non-baseline stage whose predecessor has count 0 is reported with *)
(* conversion rate 0.0 and drop-off 100.0, and is flagged at any positive  *)
(* threshold.                                                              *)
(***************************************************************************)
C4_ZeroPredecessorReportedAsFullDrop ==
    (Called /\ WellFormed) =>
        \A i \in 2..Len(SessionValues) :
            SessionValues[i - 1] = 0 =>
                /\ HasReturned
                /\ session_results.stage_analysis[i].Conversion_Rate = 0
                /\ session_results.stage_analysis[i].Drop_off = 1000
                /\ session_threshold > 0 => Flagged(session_results, i)

(***************************************************************************)
(* C5: biggest_drop_stage is the non-baseline stage with the largest       *)
(* drop-off 100 - 100*count[i]/count[i-1], the earliest one among equal    *)
(* drop-offs; it is none, with value 0, if no drop-off is above 0.         *)
(***************************************************************************)
C5_BiggestDropIsLargestExactDrop ==
    (HasReturned /\ AllPositive) =>
        /\ session_results.biggest_drop_stage = ExactBiggestDropStage(SessionStages, SessionValues)
        /\ ExactBiggestDropStage(SessionStages, SessionValues) = "None"
               => session_results.biggest_drop_value = 0

(***************************************************************************)
(* C6: only the per-stage table is rounded; overall_conversion and        *)
(* biggest_drop_value are the unrounded values, biggest_drop_value being   *)
(* the exact drop-off of the biggest-drop stage.                           *)
(***************************************************************************)
C6_OverallAndBiggestDropUnrounded ==
    HasReturned =>
        /\ NearExact(session_results.overall_conversion,
                     100 * session_results.final_conversions, session_results.total_visitors)
        /\ session_results.biggest_drop_stage # "None" =>
               TenthsIsExactDrop(SessionValues, StageIndex(session_results.biggest_drop_stage),
                                 session_results.biggest_drop_value)

(***************************************************************************)
(* C7: analyze_funnel called with an empty mapping or with a non-numeric   *)
(* count fails with an InvalidInput error, not with another kind of error  *)
(* and not with a result.                                                  *)
(***************************************************************************)
C7_MalformedInputRaisesInvalidInput ==
    (Called /\ (session_funnel_data = <<>>
                \/ \E i \in 1..Len(SessionValues) : SessionValues[i] = NonNumeric)) =>
        /\ Raised(session_results)
        /\ session_results.raised = "InvalidInput"

(***************************************************************************)
(* C8: for a fixed funnel and thresholds t1 <= t2, the problematic stages  *)
(* under t2 are among the problematic stages under t1.                     *)
(***************************************************************************)
ProblematicSet(results) ==
    {results.problematic_stages[j] : j \in 1..Len(results.problematic_stages)}

C8_ThresholdMonotonic ==
    (HasReturned /\ earlier_call # NoCall /\ Returned(earlier_call.results)) =>
        /\ earlier_call.threshold <= session_threshold =>
               ProblematicSet(session_results) \subseteq ProblematicSet(earlier_call.results)
        /\ session_threshold <= earlier_call.threshold =>
               ProblematicSet(earlier_call.results) \subseteq ProblematicSet(session_results)

C8_Witness ==
    /\ HasReturned /\ earlier_call # NoCall /\ Returned(earlier_call.results)
    /\ earlier_call.threshold < session_threshold
    /\ ProblematicSet(session_results) # {}
    /\ ProblematicSet(session_results) # ProblematicSet(earlier_call.results)

(***************************************************************************)
(* C9 as claimed: a stage whose count exceeds its predecessor's count is   *)
(* never in problematic_stages, for any threshold, negative ones included. *)
(***************************************************************************)
C9_Original_GrowthNeverFlagged ==
    HasReturned =>
        \A i \in 2..Len(SessionValues) :
            SessionValues[i] > SessionValues[i - 1] => ~Flagged(session_results, i)

(***************************************************************************)
(* C9 as amended: a stage whose count exceeds its predecessor's count is   *)
(* never in problematic_stages, for any threshold that is not negative.    *)
(***************************************************************************)
C9_GrowthNeverFlaggedAtNonNegativeThreshold ==
    (HasReturned /\ session_threshold >= 0) =>
        \A i \in 2..Len(SessionValues) :
            SessionValues[i] > SessionValues[i - 1] => ~Flagged(session_results, i)

C9_Witness ==
    /\ HasReturned /\ session_threshold >= 0
    /\ session_results.problematic_stages # <<>>
    /\ \E i \in 2..Len(SessionValues) :
           SessionValues[i] > SessionValues[i - 1] /\ ~Flagged(session_results, i)

ImpactReturned == impact_analysis # NoCall

ComparisonReturned == benchmark_comparison # NoCall

\* the float x is num/den up to a relative error of 2^-40 (den > 0)
NearSigned(x, num, den) ==
    IF num < 0 THEN x.neg /\ NearExact(FNeg(x), 0 - num, den)
    ELSE NearExact(x, num, den)

(***************************************************************************)
(* C11: calculate_potential_impact returns an entry for exactly the stages *)
(* in problematic_stages; in each entry potential_count is the count of    *)
(* the preceding stage times (100 - threshold)/100 cut to an integer,      *)
(* potential_increase is potential_count less the stage's count, and       *)
(* improvement_percentage is 100 * potential_increase / count, or 0 for a  *)
(* count of 0.                                                             *)
(***************************************************************************)
C11_ImpactEntryPerProblematicStage ==
    ImpactReturned =>
        LET impact == impact_analysis.returned
        IN  /\ DOMAIN impact = ProblematicSet(session_results)
            /\ \A stage \in DOMAIN impact :
                   LET i == StageIndex(stage)
                       entry == impact[stage]
                   IN  /\ entry.current_count = SessionValues[i]
                       /\ entry.potential_count =
                              (SessionValues[i - 1] * (100 - session_threshold)) \div 100
                       /\ entry.potential_increase = entry.potential_count - SessionValues[i]
                       /\ IF SessionValues[i] = 0
                          THEN entry.improvement_percentage = FZero
                          ELSE NearSigned(entry.improvement_percentage,
                                          100 * entry.potential_increase, SessionValues[i])

\* the stage named b follows the stage named a in the analysed funnel
Adjacent(a, b) ==
    \E i \in 2..Len(SessionStages) : SessionStages[i - 1] = a /\ SessionStages[i] = b

\* the float x is the unrounded y up to a relative error of 2^-40
NearFloat(x, y) ==
    LET diff   == FExactAdd(x, FNeg(y))
        excess == FExactAdd([neg |-> FALSE, m |-> diff.m, e |-> diff.e + 40],
                            [neg |-> TRUE, m |-> y.m, e |-> y.e])
    IN  excess.m = <<>> \/ excess.neg

(***************************************************************************)
(* C12: get_benchmark_comparison has an entry for a label exactly when the *)
(* label is one of the four table keys Visitor to Lead (2.0), Lead to MQL  *)
(* (50.0), MQL to SQL (40.0), Overall (0.4) and is either Overall or names *)
(* an adjacent pair of stages of the analysed funnel: Overall is always    *)
(* there, and other stage names or another order give no transition entry. *)
(***************************************************************************)
C12_EntriesAreTableKeysOfAdjacentPairs ==
    ComparisonReturned =>
        LET comparison == benchmark_comparison.returned
        IN  /\ DOMAIN comparison \subseteq
                   {"Visitor to Lead", "Lead to MQL", "MQL to SQL", "Overall"}
            /\ "Overall" \in DOMAIN comparison
            /\ "Visitor to Lead" \in DOMAIN comparison <=> Adjacent("Visitor", "Lead")
            /\ "Lead to MQL" \in DOMAIN comparison <=> Adjacent("Lead", "MQL")
            /\ "MQL to SQL" \in DOMAIN comparison <=> Adjacent("MQL", "SQL")
            /\ comparison["Overall"].benchmark = FDivInt(4, 10)
            /\ "Visitor to Lead" \in DOMAIN comparison =>
                   comparison["Visitor to Lead"].benchmark = FFromInt(2)
            /\ "Lead to MQL" \in DOMAIN comparison =>
                   comparison["Lead to MQL"].benchmark = FFromInt(50)
            /\ "MQL to SQL" \in DOMAIN comparison =>
                   comparison["MQL to SQL"].benchmark = FFromInt(40)

C12_Witness ==
    /\ ComparisonReturned
    /\ SessionStages[1] # "Visitor"
    /\ DOMAIN benchmark_comparison.returned = {"MQL to SQL", "Overall"}

(***************************************************************************)
(* C13: in every entry of get_benchmark_comparison, performance is Above   *)
(* exactly when actual is strictly greater than benchmark, a rate equal to *)
(* the benchmark being Below, and difference is actual less benchmark.     *)
(***************************************************************************)
C13_AboveIffActualExceedsBenchmark ==
    ComparisonReturned =>
        \A label \in DOMAIN benchmark_comparison.returned :
            LET entry == benchmark_comparison.returned[label]
                exact == FExactAdd(entry.actual, FNeg(entry.benchmark))
            IN  /\ entry.performance \in {"Above", "Below"}
                /\ entry.performance = "Above" <=> (exact.m # <<>> /\ ~exact.neg)
                /\ exact.m = <<>> => entry.difference = FZero
                /\ exact.m # <<>> =>
                       /\ entry.difference.neg = exact.neg
                       /\ NearFloat(entry.difference, exact)

C13_Witness ==
    /\ ComparisonReturned
    /\ \E label \in DOMAIN benchmark_comparison.returned :
           /\ benchmark_comparison.returned[label].actual =
                  benchmark_comparison.returned[label].benchmark
           /\ benchmark_comparison.returned[label].performance = "Below"
    /\ \E label \in DOMAIN benchmark_comparison.returned :
           benchmark_comparison.returned[label].performance = "Above"

(***************************************************************************)
(* C14: analyze_funnel on Visitor 1000, Lead 250, MQL 125, SQL 50 with     *)
(* threshold 35 reports Lead at 25.0 / 75.0, MQL at 50.0 / 50.0 and SQL at *)
(* 40.0 / 60.0 (conversion / drop-off), all three problematic, an overall  *)
(* conversion of 5.0 and Lead as the biggest drop, of 75.0.                *)
(***************************************************************************)
C14_WorkedExample ==
    (HasReturned /\ session_funnel_data = ScenarioFunnel /\ session_threshold = 35) =>
        /\ [i \in 1..4 |-> session_results.stage_analysis[i].Conversion_Rate]
               = <<1000, 250, 500, 400>>
        /\ [i \in 1..4 |-> session_results.stage_analysis[i].Drop_off]
               = <<0, 750, 500, 600>>
        /\ session_results.problematic_stages = <<"Lead", "MQL", "SQL">>
        /\ \A i \in 2..4 : NeedsAttention(session_results, i)
        /\ session_results.overall_conversion = FFromInt(5)
        /\ session_results.biggest_drop_stage = "Lead"
        /\ session_results.biggest_drop_value = 750

C14_Witness ==
    /\ HasReturned
    /\ session_funnel_data = ScenarioFunnel
    /\ session_threshold = 35
    /\ session_results.final_conversions = 50

(***************************************************************************)
(* DataGenerator (src/data_generator.py).                                  *)
(*                                                                         *)
(* The module-level random generator is deterministic in its state.  Its   *)
(* state is modelled as the cycle of values random.random() yields next:   *)
(* a draw takes the head of the cycle and moves on.  random.choice and     *)
(* random.randint take one draw each and scale it to an index.             *)
(***************************************************************************)
base_visitors == 1000

traffic_multipliers ==
    "Google Ads" :> FDivInt(12, 10) @@
    "Facebook Ads" :> FFromInt(1) @@
    "Organic" :> FDivInt(8, 10) @@
    "Direct" :> FDivInt(6, 10) @@
    "Email" :> FDivInt(4, 10)

time_multipliers ==
    "Last 7 Days" :> FDivInt(3, 10) @@
    "Last 30 Days" :> FFromInt(1) @@
    "Last 90 Days" :> FDivInt(28, 10)

\* table.get(label, 1.0)
GetMultiplier(table, label) ==
    IF label \in DOMAIN table THEN table[label] ELSE FFromInt(1)

\* the largest value random.random() returns: 1 - 2^-53
RandomMax ==
    [neg |-> FALSE, m |-> BigSub(BigShl(<<1>>, MantBits), <<1>>), e |-> 0 - MantBits]

DrawValues == {FZero, RandomMax}

\* the states of the generator: the values it yields next, in a cycle
RandomStates == {<<a, b, c, d>> : a \in DrawValues, b \in DrawValues,
                                   c \in DrawValues, d \in DrawValues}

\* the k-th value the generator in state rs yields next
Draw(rs, k) ==
    rs[((k - 1) % Len(rs)) + 1]

\* the state after n draws
Advance(rs, n) ==
    [i \in 1..Len(rs) |-> rs[((i - 1 + n) % Len(rs)) + 1]]

\* random.uniform(a, b) for range = (a, b) on the draw r: a + (b - a) * random()
Uniform(range, r) ==
    Only({FAdd(range[1], part) : part \in {FMul(FSub(range[2], range[1]), r)}})

\* random.choice(seq) on the draw r
Choice(seq, r) ==
    seq[FTrunc(FMulInt(r, Len(seq))) + 1]

\* random.randint(a, b) on the draw r
RandInt(a, b, r) ==
    a + FTrunc(FMulInt(r, b - a + 1))

\* a variant with the first range in percent
conversion_ranges_percent ==
    "Visitor_to_Lead" :> <<FDivInt(15, 10), FDivInt(35, 10)>> @@
    "Lead_to_MQL" :> <<FDivInt(40, 100), FDivInt(65, 100)>> @@
    "MQL_to_SQL" :> <<FDivInt(25, 100), FDivInt(50, 100)>>

conversion_ranges ==
    "Visitor_to_Lead" :> <<FDivInt(15, 1000), FDivInt(35, 1000)>> @@
    "Lead_to_MQL" :> <<FDivInt(40, 100), FDivInt(65, 100)>> @@
    "MQL_to_SQL" :> <<FDivInt(25, 100), FDivInt(50, 100)>>

\* a variant with the two lowered ranges exchanged
lowered_ranges_exchanged ==
    "Lead_to_MQL" :> <<FDivInt(15, 100), FDivInt(30, 100)>> @@
    "MQL_to_SQL" :> <<FDivInt(20, 100), FDivInt(35, 100)>>

\* the ranges of the lowered rate of a problematic stage
lowered_ranges ==
    "Lead_to_MQL" :> <<FDivInt(20, 100), FDivInt(35, 100)>> @@
    "MQL_to_SQL" :> <<FDivInt(15, 100), FDivInt(30, 100)>>

\* the chance 0.3 of having a problematic stage
ProblematicChance == FDivInt(3, 10)

\* a variant without the floor of 1
Clamp_absent(n) ==
    n

\* leads = max(1, leads) and the like
Clamp(n) ==
    AtLeastOne(n)

\* the conversion rates _generate_realistic_funnel draws in generator state rs
ConversionRates(rs) ==
    LET degrade == FGt(ProblematicChance, Draw(rs, 4))
        problematic_stage ==
            IF degrade THEN Choice(<<"Lead_to_MQL", "MQL_to_SQL">>, Draw(rs, 5)) ELSE "None"
    IN  [visitor_to_lead_rate |-> Uniform(conversion_ranges["Visitor_to_Lead"], Draw(rs, 1)),
         lead_to_mql_rate |->
             IF problematic_stage = "Lead_to_MQL"
             THEN Uniform(lowered_ranges["Lead_to_MQL"], Draw(rs, 6))
             ELSE Uniform(conversion_ranges["Lead_to_MQL"], Draw(rs, 2)),
         mql_to_sql_rate |->
             IF problematic_stage = "MQL_to_SQL"
             THEN Uniform(lowered_ranges["MQL_to_SQL"], Draw(rs, 6))
             ELSE Uniform(conversion_ranges["MQL_to_SQL"], Draw(rs, 3)),
         problematic_stage |-> problematic_stage,
         draws |-> IF degrade THEN 6 ELSE 4]

\* DataGenerator._generate_realistic_funnel in generator state rs
generate_realistic_funnel(visitors, rs) ==
    Only({Only({Only({Only({
        [funnel |-> <<[Stage |-> "Visitor", Count |-> visitors],
                      [Stage |-> "Lead", Count |-> Clamp(leads)],
                      [Stage |-> "MQL", Count |-> Clamp(mqls)],
                      [Stage |-> "SQL", Count |-> Clamp(sqls)]>>,
         visitor_to_lead_rate |-> rate.visitor_to_lead_rate,
         lead_to_mql_rate |-> rate.lead_to_mql_rate,
         mql_to_sql_rate |-> rate.mql_to_sql_rate,
         problematic_stage |-> rate.problematic_stage,
         draws |-> rate.draws]
        : sqls \in {FTrunc(FMulInt(rate.mql_to_sql_rate, mqls))}})
        : mqls \in {FTrunc(FMulInt(rate.lead_to_mql_rate, leads))}})
        : leads \in {FTrunc(FMulInt(rate.visitor_to_lead_rate, visitors))}})
        : rate \in {ConversionRates(rs)}})

\* sum(...) over the multipliers of the sources from position i on, added to acc
RECURSIVE SumMultipliers(_, _, _)
SumMultipliers(traffic_sources, i, acc) ==
    IF i > Len(traffic_sources) THEN acc
    ELSE Only({SumMultipliers(traffic_sources, i + 1, sum)
               : sum \in {FAdd(acc, GetMultiplier(traffic_multipliers, traffic_sources[i]))}})

\* a variant that adds the multipliers up and does not divide
TrafficMultiplier_sum(traffic_sources) ==
    SumMultipliers(traffic_sources, 1, FZero)

TrafficMultiplier(traffic_sources) ==
    Only({FDivSmall(sum, Len(traffic_sources))
          : sum \in {SumMultipliers(traffic_sources, 1, FZero)}})

\* the bounds 0.8 and 1.2 of the randomness factor
RandomnessRange == <<FDivInt(8, 10), FDivInt(12, 10)>>

\* DataGenerator.generate_funnel_data in generator state rs
generate_funnel_data(time_period, traffic_sources, rs) ==
    IF traffic_sources = <<>>
    THEN [time_period |-> time_period, traffic_sources |-> traffic_sources,
          raised |-> "ZeroDivisionError", draws |-> 0]
    ELSE
    Only({Only({Only({Only({Only({
        [time_period |-> time_period, traffic_sources |-> traffic_sources,
         time_multiplier |-> time_multiplier,
         traffic_multiplier |-> traffic_multiplier,
         total_visitors |-> total_visitors,
         randomness |-> randomness,
         visitor_to_lead_rate |-> made.visitor_to_lead_rate,
         lead_to_mql_rate |-> made.lead_to_mql_rate,
         mql_to_sql_rate |-> made.mql_to_sql_rate,
         problematic_stage |-> made.problematic_stage,
         funnel |-> made.funnel,
         draws |-> 1 + made.draws]
        : made \in {generate_realistic_funnel(FTrunc(FMulInt(randomness, total_visitors)),
                                              Advance(rs, 1))}})
        : randomness \in {Uniform(RandomnessRange, Draw(rs, 1))}})
        : total_visitors \in {FTrunc(FMul(FMulInt(time_multiplier, base_visitors),
                                          traffic_multiplier))}})
        : traffic_multiplier \in {TrafficMultiplier(traffic_sources)}})
        : time_multiplier \in {GetMultiplier(time_multipliers, time_period)}})

\* date.weekday() of a day number: day 0 is a Monday
Weekday(day) ==
    day % 7

\* the factor 1.1 of a weekday
WeekdayFactor == FDivInt(11, 10)

\* base_visitors of one day, from the draw r
DailyVisitors(date, r) ==
    IF Weekday(date) < 5 THEN FTrunc(FMulInt(WeekdayFactor, RandInt(800, 1200, r)))
    ELSE RandInt(800, 1200, r)

\* the loop of generate_historical_data from iteration i (from 0) on; the first
\* `midnight` iterations read the date now_day off the clock, the later ones the
\* day after
RECURSIVE HistoricalLoop(_, _, _, _, _, _)
HistoricalLoop(days, i, now_day, midnight, rs, historical) ==
    IF i >= days THEN [records |-> historical, rs |-> rs]
    ELSE
    LET now == IF i >= midnight THEN now_day + 1 ELSE now_day
        date == now - (days - i)
    IN
    Only({Only({
        HistoricalLoop(days, i + 1, now_day, midnight, next[1], next[2])
        : next \in {<<Advance(rs, 1 + daily_funnel.draws),
                      historical \o [k \in 1..Len(daily_funnel.funnel) |->
                                        [date |-> date,
                                         stage |-> daily_funnel.funnel[k].Stage,
                                         count |-> daily_funnel.funnel[k].Count]]>>}})
        : daily_funnel \in {generate_realistic_funnel(DailyVisitors(date, Draw(rs, 1)),
                                                      Advance(rs, 1))}})

\* DataGenerator.generate_historical_data in generator state rs
generate_historical_data(days, now_day, midnight, rs) ==
    HistoricalLoop(days, 0, now_day, midnight, rs, <<>>)

\* the bounds of random.uniform for the share of a source
percentage_ranges ==
    "Google Ads" :> <<FDivInt(4, 10), FDivInt(6, 10)>> @@
    "Facebook Ads" :> <<FDivInt(2, 10), FDivInt(4, 10)>> @@
    "Organic" :> <<FDivInt(1, 10), FDivInt(3, 10)>> @@
    "Direct" :> <<FDivInt(5, 100), FDivInt(2, 10)>> @@
    "Email" :> <<FDivInt(2, 100), FDivInt(1, 10)>>

\* the bounds for a source of another name
OtherPercentageRange == <<FDivInt(5, 100), FDivInt(15, 100)>>

PercentageRange(source) ==
    IF source \in DOMAIN percentage_ranges THEN percentage_ranges[source]
    ELSE OtherPercentageRange

\* a variant without the floor of 1
SourceCount_unfloored(count, percentage) ==
    FTrunc(FMulInt(percentage, count))

\* source_data[stage]
SourceCount(count, percentage) ==
    AtLeastOne(FTrunc(FMulInt(percentage, count)))

EmptyDict == [key \in {} |-> key]

\* the loop of generate_traffic_source_breakdown from source i on; a source
\* listed again replaces its earlier entry
RECURSIVE BreakdownLoop(_, _, _, _, _)
BreakdownLoop(funnel_data, traffic_sources, i, rs, acc) ==
    IF i > Len(traffic_sources) THEN acc
    ELSE
    Only({Only({
        BreakdownLoop(funnel_data, traffic_sources, i + 1, Advance(rs, 1), next)
        : next \in {[percentage |-> (traffic_sources[i] :> percentage) @@ acc.percentage,
                     breakdown |->
                         (traffic_sources[i] :>
                             [k \in 1..Len(funnel_data) |->
                                 [Stage |-> funnel_data[k].Stage,
                                  Count |-> SourceCount(funnel_data[k].Count, percentage)]])
                         @@ acc.breakdown]}})
        : percentage \in {Uniform(PercentageRange(traffic_sources[i]), Draw(rs, 1))}})

\* DataGenerator.generate_traffic_source_breakdown in generator state rs
generate_traffic_source_breakdown(funnel_data, traffic_sources, rs) ==
    BreakdownLoop(funnel_data, traffic_sources, 1, rs,
                  [percentage |-> EmptyDict, breakdown |-> EmptyDict])

(***************************************************************************)
(* A third state machine: a caller of generate_funnel_data, any number of  *)
(* times, with any time period and any list of traffic sources.            *)
(***************************************************************************)
MaxSources == 2

TimePeriods == {"Last 7 Days", "Last 90 Days", "Yesterday"}

SourceNames == {"Email", "Referral"}

TrafficSourceLists == UNION {[1..n -> SourceNames] : n \in 0..MaxSources}

\* no FunnelAnalyzer method has been called
AnalyzerIdle ==
    /\ funnel_stages = <<"Visitor", "Lead", "MQL", "SQL">>
    /\ session_funnel_data = <<>>
    /\ session_threshold = 35
    /\ session_results = NoCall
    /\ earlier_call = NoCall
    /\ impact_analysis = NoCall
    /\ benchmark_comparison = NoCall

InitGenerator ==
    /\ AnalyzerIdle
    /\ random_state \in RandomStates
    /\ clock = 0
    /\ generated = NoCall
    /\ earlier_generated = NoCall
    /\ historical_data = NoCall
    /\ source_breakdown = NoCall
    /\ InsightsIdle

SameArguments(call, time_period, traffic_sources) ==
    /\ call # NoCall
    /\ call.time_period = time_period
    /\ call.traffic_sources = traffic_sources

\* funnel_data = data_generator.generate_funnel_data(time_period, traffic_sources);
\* earlier_generated keeps the call before this one if its arguments were the same
GenerateFunnelData(time_period, traffic_sources) ==
    /\ generated' = generate_funnel_data(time_period, traffic_sources, random_state)
    /\ random_state' = Advance(random_state, generated'.draws)
    /\ earlier_generated' =
           IF SameArguments(generated, time_period, traffic_sources) THEN generated ELSE NoCall
    /\ UNCHANGED <<clock, historical_data, source_breakdown>>
    /\ UNCHANGED analyzer_vars
    /\ UNCHANGED insights_vars

\* data_generator.generate_funnel_data() with the defaults of its parameters
GenerateDefaultFunnelData ==
    GenerateFunnelData("Last 30 Days", <<"Google Ads", "Facebook Ads">>)

NextGenerator ==
    \/ \E time_period \in TimePeriods, traffic_sources \in TrafficSourceLists :
           GenerateFunnelData(time_period, traffic_sources)
    \/ GenerateDefaultFunnelData

SpecGenerator == InitGenerator /\ [][NextGenerator]_vars

(***************************************************************************)
(* A fourth state machine: a caller of generate_historical_data.  The      *)
(* clock may pass midnight while the call runs.                            *)
(***************************************************************************)
MaxDays == 2

LastDay == 14

StartDays == (LastDay - 7)..(LastDay - 1)

InitHistorical ==
    /\ AnalyzerIdle
    /\ random_state \in RandomStates
    /\ clock \in StartDays
    /\ generated = NoCall
    /\ earlier_generated = NoCall
    /\ historical_data = NoCall
    /\ source_breakdown = NoCall
    /\ InsightsIdle

\* historical = data_generator.generate_historical_data(days); midnight is the
\* number of iterations that read the clock before the date changes
GenerateHistoricalData(days, midnight) ==
    /\ IF days <= 0 THEN midnight = 0 ELSE midnight \in 1..days
    /\ midnight < days => clock < LastDay
    /\ \E made \in {generate_historical_data(days, clock, midnight, random_state)} :
           /\ clock' = IF midnight < days THEN clock + 1 ELSE clock
           /\ historical_data' = [days |-> days, records |-> made.records, returned_on |-> clock']
           /\ random_state' = made.rs
    /\ UNCHANGED <<generated, earlier_generated, source_breakdown>>
    /\ UNCHANGED analyzer_vars
    /\ UNCHANGED insights_vars

NextHistorical ==
    \E days \in 0..MaxDays, midnight \in 0..MaxDays : GenerateHistoricalData(days, midnight)

SpecHistorical == InitHistorical /\ [][NextHistorical]_vars

(***************************************************************************)
(* A fifth state machine: a caller that holds a funnel mapping and asks    *)
(* for its breakdown by traffic source.                                    *)
(***************************************************************************)
BreakdownFunnels ==
    {<<[Stage |-> "Visitor", Count |-> 1000], [Stage |-> "Lead", Count |-> 25],
       [Stage |-> "MQL", Count |-> 10], [Stage |-> "SQL", Count |-> 0]>>,
     <<[Stage |-> "Visitor", Count |-> 96], [Stage |-> "Lead", Count |-> 1]>>}

BreakdownSourceLists ==
    TrafficSourceLists \cup {<<source>> : source \in DOMAIN traffic_multipliers}

InitBreakdown ==
    /\ funnel_stages = <<"Visitor", "Lead", "MQL", "SQL">>
    /\ session_funnel_data \in BreakdownFunnels
    /\ session_threshold = 35
    /\ session_results = NoCall
    /\ earlier_call = NoCall
    /\ impact_analysis = NoCall
    /\ benchmark_comparison = NoCall
    /\ random_state \in RandomStates
    /\ clock = 0
    /\ generated = NoCall
    /\ earlier_generated = NoCall
    /\ historical_data = NoCall
    /\ source_breakdown = NoCall
    /\ InsightsIdle

\* breakdown = data_generator.generate_traffic_source_breakdown(funnel_data, traffic_sources)
GenerateTrafficSourceBreakdown(traffic_sources) ==
    /\ \E made \in {generate_traffic_source_breakdown(session_funnel_data, traffic_sources,
                                                       random_state)} :
           source_breakdown' = [funnel_data |-> session_funnel_data,
                                traffic_sources |-> traffic_sources,
                                percentage |-> made.percentage,
                                breakdown |-> made.breakdown]
    /\ random_state' = Advance(random_state, Len(traffic_sources))
    /\ UNCHANGED <<clock, generated, earlier_generated, historical_data>>
    /\ UNCHANGED analyzer_vars
    /\ UNCHANGED insights_vars

NextBreakdown ==
    \E traffic_sources \in BreakdownSourceLists : GenerateTrafficSourceBreakdown(traffic_sources)

SpecBreakdown == InitBreakdown /\ [][NextBreakdown]_vars

(***************************************************************************)
(* Properties of the data generator.                                       *)
(***************************************************************************)
\* generate_funnel_data returned a funnel
FunnelGenerated ==
    /\ generated # NoCall
    /\ "funnel" \in DOMAIN generated

\* the keys of a funnel mapping, in their order
StageKeys(funnel) ==
    [k \in 1..Len(funnel) |-> funnel[k].Stage]

\* C15: for every time period, every non-empty list of traffic sources and every
\* outcome of the draws, generate_funnel_data returns a mapping with exactly the
\* keys Visitor, Lead, MQL, SQL in that order, and Lead, MQL and SQL are each at
\* least 1.
C15_FourStagesEachAtLeastOne ==
    (generated # NoCall /\ generated.traffic_sources # <<>>) =>
        /\ FunnelGenerated
        /\ StageKeys(generated.funnel) = <<"Visitor", "Lead", "MQL", "SQL">>
        /\ \A k \in 2..4 : generated.funnel[k].Count >= 1

\* a generated funnel whose MQL count of 0 was raised to 1
C15_Witness ==
    /\ FunnelGenerated
    /\ generated.traffic_sources # <<>>
    /\ generated.funnel[2].Count = 1
    /\ FTrunc(FMulInt(generated.lead_to_mql_rate, 1)) = 0
    /\ generated.funnel[3].Count = 1

\* the number of tenths a multiplier of the tables stands for
Tenths(multiplier) ==
    CHOOSE t \in 0..30 : FDivInt(t, 10) = multiplier

\* the tenths of the multiplier of a label: 10, that is 1.0, for an unknown label
LabelTenths(table, label) ==
    IF label \in DOMAIN table THEN Tenths(table[label]) ELSE 10

\* ten times the sum of the per-source multipliers, as an integer
RECURSIVE SumTenths(_)
SumTenths(traffic_sources) ==
    IF traffic_sources = <<>> THEN 0
    ELSE LabelTenths(traffic_multipliers, Head(traffic_sources))
             + SumTenths(Tail(traffic_sources))

\* C16: for every time period, every non-empty list of traffic sources and every
\* jitter in [0.8, 1.2], the returned Visitor count lies within [0.8*P, 1.2*P]
\* for the unrounded P = 1000 * time_multiplier * mean of the source multipliers;
\* with P = 10 * tenths(time) * sum of tenths(source) / n this is
\* 8 * tenths * sum <= Visitor * n <= 12 * tenths * sum.
C16_VisitorsWithinTwentyPercent ==
    (FunnelGenerated /\ generated.traffic_sources # <<>>) =>
        LET n == Len(generated.traffic_sources)
            product == LabelTenths(time_multipliers, generated.time_period)
                           * SumTenths(generated.traffic_sources)
        IN  /\ 8 * product <= generated.funnel[1].Count * n
            /\ generated.funnel[1].Count * n <= 12 * product

\* every label of the list is missing from traffic_multipliers
OnlyUnknownSources(traffic_sources) ==
    \A i \in 1..Len(traffic_sources) : traffic_sources[i] \notin DOMAIN traffic_multipliers

\* C17: the traffic multiplier is the arithmetic mean (not the sum) of the
\* per-source multipliers over the given list; an unknown time-period label or an
\* unknown traffic-source label is never an error and contributes the multiplier
\* 1.0, so a list of unknown sources only, of any length, has the traffic
\* multiplier 1.0.
C17_MeanOfMultipliersUnknownIsOne ==
    (generated # NoCall /\ generated.traffic_sources # <<>>) =>
        /\ FunnelGenerated
        /\ NearExact(generated.traffic_multiplier, SumTenths(generated.traffic_sources),
                     10 * Len(generated.traffic_sources))
        /\ NearExact(generated.time_multiplier,
                     LabelTenths(time_multipliers, generated.time_period), 10)
        /\ generated.time_period \notin DOMAIN time_multipliers =>
               generated.time_multiplier = FFromInt(1)
        /\ OnlyUnknownSources(generated.traffic_sources) =>
               generated.traffic_multiplier = FFromInt(1)

\* a funnel generated for an unknown time period and two unknown sources
C17_Witness ==
    /\ FunnelGenerated
    /\ generated.time_period \notin DOMAIN time_multipliers
    /\ Len(generated.traffic_sources) >= 2
    /\ OnlyUnknownSources(generated.traffic_sources)
    /\ generated.traffic_multiplier = FFromInt(1)

\* C18: two calls of generate_funnel_data with the same arguments and the same
\* injected random source return identical funnels, the generator offering a way
\* to inject that source.  generate_funnel_data takes the time period and the
\* traffic sources only, so the calls that agree on all they can be given are the
\* calls with the same arguments.
C18_SameArgumentsSameFunnel ==
    (FunnelGenerated /\ earlier_generated # NoCall /\ "funnel" \in DOMAIN earlier_generated) =>
        generated.funnel = earlier_generated.funnel

\* generate_historical_data returned
HistoryReturned == historical_data # NoCall

\* the dates of the records, one per day: the date of every fourth record
DayDates ==
    [d \in 1..(Len(historical_data.records) \div 4) |-> historical_data.records[4 * d - 3].date]

\* C19: generate_historical_data(days) returns one record per (day, stage) pair
\* for exactly `days` consecutive calendar days in ascending order, 4 records
\* per day in the order Visitor, Lead, MQL, SQL, and the last day covered is the
\* current date.
C19_ConsecutiveDaysEndingToday ==
    (HistoryReturned /\ historical_data.days >= 1) =>
        LET records == historical_data.records
            days == historical_data.days
        IN  /\ Len(records) = 4 * days
            /\ \A d \in 1..days :
                   /\ \A k \in 1..4 : records[4 * (d - 1) + k].date = DayDates[d]
                   /\ [k \in 1..4 |-> records[4 * (d - 1) + k].stage]
                          = <<"Visitor", "Lead", "MQL", "SQL">>
            /\ \A d \in 2..days : DayDates[d] = DayDates[d - 1] + 1
            /\ DayDates[days] = historical_data.returned_on

\* generate_traffic_source_breakdown returned
BreakdownReturned == source_breakdown # NoCall

\* floor(count * share * (1 - 2^-40)) and floor(count * share * (1 + 2^-40)) for
\* the unrounded product of an int count >= 0 and a float share >= 0
FloorBelow(count, share) ==
    LET product == BigMulSmall(share.m, count)
    IN  BigToNat(BigShr(BigSub(BigShl(product, 40), product), 40 - share.e))

FloorAbove(count, share) ==
    LET product == BigMulSmall(share.m, count)
    IN  BigToNat(BigShr(BigAdd(BigShl(product, 40), product), 40 - share.e))

\* n is max(1, floor(count * share)), the product taken up to a relative error of 2^-40
IsFlooredShare(n, count, share) ==
    \E floor \in FloorBelow(count, share)..FloorAbove(count, share) :
        n = IF floor < 1 THEN 1 ELSE floor

\* lo <= x <= hi
Within(x, lo, hi) ==
    ~FGt(lo, x) /\ ~FGt(x, hi)

\* C20: generate_traffic_source_breakdown returns one funnel per distinct source
\* of traffic_sources, with the stage keys of funnel_data; within one source every
\* stage count is max(1, floor(count * share)) for one share drawn from the fixed
\* range of the source ([0.05, 0.15] for an unknown source), so every count is at
\* least 1 even when the input count is 0; funnel_data is left unchanged.
C20_OneFlooredShareFunnelPerSource ==
    BreakdownReturned =>
        LET funnel_data == source_breakdown.funnel_data
            traffic_sources == source_breakdown.traffic_sources
            breakdown == source_breakdown.breakdown
        IN  /\ DOMAIN breakdown = {traffic_sources[i] : i \in 1..Len(traffic_sources)}
            /\ \A source \in DOMAIN breakdown :
                   LET share == source_breakdown.percentage[source]
                   IN  /\ StageKeys(breakdown[source]) = StageKeys(funnel_data)
                       /\ IF source \in DOMAIN percentage_ranges
                          THEN Within(share, percentage_ranges[source][1],
                                      percentage_ranges[source][2])
                          ELSE Within(share, FDivInt(5, 100), FDivInt(15, 100))
                       /\ \A k \in 1..Len(funnel_data) :
                              /\ IsFlooredShare(breakdown[source][k].Count,
                                                funnel_data[k].Count, share)
                              /\ breakdown[source][k].Count >= 1
            /\ session_funnel_data = funnel_data

\* a breakdown for a list naming one source twice, of a funnel with a count of 0
C20_Witness ==
    /\ BreakdownReturned
    /\ Len(source_breakdown.traffic_sources) = 2
    /\ source_breakdown.traffic_sources[1] = source_breakdown.traffic_sources[2]
    /\ \E k \in 1..Len(source_breakdown.funnel_data) :
           /\ source_breakdown.funnel_data[k].Count = 0
           /\ source_breakdown.breakdown[source_breakdown.traffic_sources[1]][k].Count = 1

(***************************************************************************)
(* AIInsights.generate_insights                                            *)
(*                                                                         *)
(* The text of a reply is a sequence of JSON tokens.  A call either        *)
(* returns (None, or the parsed value) or raises.                          *)
(***************************************************************************)
StringTokens == {"\"summary\"", "\"ok\""}

\* response.choices[0].message.content is None
NoneContent == [none |-> TRUE]

\* json.loads(content): an object of at most one member, a string, or the error raised
JsonLoads(content) ==
    IF "text" \notin DOMAIN content THEN [raised |-> "TypeError"]
    ELSE LET text == content.text
         IN  IF Len(text) = 1 /\ text[1] \in StringTokens
             THEN [returns |-> "str", value |-> text[1]]
             ELSE IF text = <<"{", "}">>
             THEN [returns |-> "dict", value |-> EmptyDict]
             ELSE IF /\ Len(text) = 5
                     /\ text[1] = "{" /\ text[2] \in StringTokens /\ text[3] = ":"
                     /\ text[4] \in StringTokens /\ text[5] = "}"
             THEN [returns |-> "dict", value |-> (text[2] :> text[4])]
             ELSE [raised |-> "JSONDecodeError"]

\* self._prepare_context(analysis_results, funnel_data): the values it formats
prepare_context(analysis_results, funnel_data) ==
    [funnel_data |-> funnel_data,
     overall_conversion |-> Round1(analysis_results.overall_conversion),
     total_visitors |-> analysis_results.total_visitors,
     final_conversions |-> analysis_results.final_conversions,
     threshold_used |-> analysis_results.threshold_used,
     stage_analysis |-> analysis_results.stage_analysis,
     problematic_stages |-> analysis_results.problematic_stages,
     biggest_drop_stage |-> analysis_results.biggest_drop_stage]

\* the rest of the try statement once the request is made: what
\* client.chat.completions.create and json.loads do
TryBody(reply) ==
    IF Raised(reply) THEN reply ELSE JsonLoads(reply.content)

\* a variant without the except clause
ExceptException_absent(outcome) ==
    outcome

\* except Exception as e: ... return None
ExceptException(outcome) ==
    IF Raised(outcome) THEN [returns |-> "None"] ELSE outcome

\* AIInsights.generate_insights, given what the service does with the request
generate_insights(self_client, reply) ==
    IF self_client = "None" THEN [returns |-> "None"]
    ELSE ExceptException(TryBody(reply))

(***************************************************************************)
(* A sixth state machine: a caller that has a funnel analysed and asks for *)
(* insights on the result, with or without an API key, the service failing *)
(* or replying with any text.                                              *)
(***************************************************************************)
InsightsFunnels ==
    {ScenarioFunnel} \cup
    {<<[Stage |-> "Visitor", Count |-> a], [Stage |-> "Lead", Count |-> b]>> :
         a \in AnalysisCounts, b \in AnalysisCounts}

ServiceErrors == {"APIConnectionError", "RateLimitError", "AuthenticationError"}

JsonTexts ==
    {<<>>, <<"{">>, <<"{", "}">>, <<"{", "\"summary\"", "}">>, <<"{", "\"summary\"", ":">>,
     <<"{", "\"summary\"", ":", "\"ok\"", "}">>, <<"\"ok\"">>}

ServiceReplies ==
    {[raised |-> error] : error \in ServiceErrors}
        \cup {[content |-> [text |-> text]] : text \in JsonTexts}
        \cup {[content |-> NoneContent]}

InitInsights ==
    /\ funnel_stages = <<"Visitor", "Lead", "MQL", "SQL">>
    /\ session_funnel_data \in InsightsFunnels
    /\ session_threshold = 35
    /\ session_results = NoCall
    /\ earlier_call = NoCall
    /\ impact_analysis = NoCall
    /\ benchmark_comparison = NoCall
    /\ GeneratorIdle
    /\ client \in {"None", "OpenAI"}
    /\ insights = NoCall

\* insights = ai_insights.generate_insights(analysis_results, funnel_data)
GenerateInsights(reply) ==
    /\ Returned(session_results)
    /\ IF client = "None" THEN reply = NoCall ELSE reply \in ServiceReplies
    /\ insights' = [analysis_results |-> session_results,
                    funnel_data |-> session_funnel_data,
                    request |-> IF client = "None" THEN NoCall
                                ELSE prepare_context(session_results, session_funnel_data),
                    reply |-> reply,
                    outcome |-> generate_insights(client, reply)]
    /\ UNCHANGED client
    /\ UNCHANGED analyzer_vars
    /\ UNCHANGED generator_vars

NextInsights ==
    \/ \E threshold \in AnalysisThresholds : AnalyzeFunnel(threshold)
    \/ \E reply \in ServiceReplies \cup {NoCall} : GenerateInsights(reply)
    \/ CalculatePotentialImpact

SpecInsights == InitInsights /\ [][NextInsights]_vars

\* generate_insights has been called
InsightsCalled == insights # NoCall

\* the texts of JsonTexts that are JSON
WellFormedTexts ==
    {<<"{", "}">>, <<"{", "\"summary\"", ":", "\"ok\"", "}">>, <<"\"ok\"">>}

\* the service answered the call of generate_insights with a text that is JSON
ServiceGaveJson ==
    /\ insights.reply # NoCall
    /\ ~Raised(insights.reply)
    /\ insights.reply.content # NoneContent
    /\ insights.reply.content.text \in WellFormedTexts

\* C21: generate_insights never propagates an error: without credentials, when
\* the service call fails or when the service returns malformed JSON it returns
\* None; the analysis result and the funnel_data passed to it are unchanged and
\* remain usable.
C21_InsightsDegradeToNone ==
    InsightsCalled =>
        /\ ~Raised(insights.outcome)
        /\ ~ServiceGaveJson => insights.outcome = [returns |-> "None"]
        /\ insights.analysis_results = session_results
        /\ insights.funnel_data = session_funnel_data
        /\ Returned(session_results)

\* with credentials, the service replied with a text that is not JSON and
\* generate_insights returned None; calculate_potential_impact has returned for
\* the same analysis result
C21_Witness ==
    /\ InsightsCalled
    /\ client = "OpenAI"
    /\ ~Raised(insights.reply)
    /\ insights.reply.content = [text |-> <<"{", "\"summary\"", ":">>]
    /\ insights.outcome = [returns |-> "None"]
    /\ ImpactReturned

\* C22: in every funnel generation the Visitor-to-Lead rate is in [1.5%, 3.5%]
\* and never lowered; at most one of the Lead-to-MQL and MQL-to-SQL rates is
\* replaced by a rate of its lowered range ([20%, 35%] and [15%, 30%]), so the
\* Lead-to-MQL rate is in [20%, 65%], the MQL-to-SQL rate in [15%, 50%], and
\* never Lead-to-MQL < 40% together with MQL-to-SQL < 25%.
C22_AtMostOneLoweredRate ==
    FunnelGenerated =>
        LET lead_rate == generated.lead_to_mql_rate
            sql_rate == generated.mql_to_sql_rate
            lead_lowered == FGt(FDivInt(40, 100), lead_rate)
            sql_lowered == FGt(FDivInt(25, 100), sql_rate)
        IN  /\ Within(generated.visitor_to_lead_rate, FDivInt(15, 1000), FDivInt(35, 1000))
            /\ Within(lead_rate, FDivInt(20, 100), FDivInt(65, 100))
            /\ Within(sql_rate, FDivInt(15, 100), FDivInt(50, 100))
            /\ lead_lowered => Within(lead_rate, FDivInt(20, 100), FDivInt(35, 100))
            /\ sql_lowered => Within(sql_rate, FDivInt(15, 100), FDivInt(30, 100))
            /\ ~(lead_lowered /\ sql_lowered)

\* a funnel generated with the MQL-to-SQL rate lowered and the Lead-to-MQL rate not
C22_Witness ==
    /\ FunnelGenerated
    /\ generated.problematic_stage = "MQL_to_SQL"
    /\ FGt(FDivInt(25, 100), generated.mql_to_sql_rate)
    /\ ~FGt(FDivInt(40, 100), generated.lead_to_mql_rate)

\* C23: every funnel generate_funnel_data returns is non-increasing along the
\* stage order, Visitor >= Lead >= MQL >= SQL >= 1, for every time period, every
\* non-empty source list and every outcome of the draws: the floor of 1 never
\* lifts a stage above its predecessor.
C23_FunnelNonIncreasing ==
    FunnelGenerated =>
        /\ \A k \in 2..Len(generated.funnel) :
               generated.funnel[k - 1].Count >= generated.funnel[k].Count
        /\ generated.funnel[Len(generated.funnel)].Count >= 1

\* a generated funnel with more than one MQL whose SQL count of 0 was raised to 1
C23_Witness ==
    /\ FunnelGenerated
    /\ generated.funnel[3].Count > 1
    /\ FTrunc(FMulInt(generated.mql_to_sql_rate, generated.funnel[3].Count)) = 0
    /\ generated.funnel[4].Count = 1

(***************************************************************************)
(* A seventh state machine: one run of the pipeline from the generator to  *)
(* the analyzer.  The funnel a DataGenerator method returns is stored as   *)
(* the session's funnel and analysed: first the funnel of                  *)
(* generate_funnel_data (the Run Analysis button on demo data) or of one   *)
(* day of generate_historical_data, then one source's funnel of            *)
(* generate_traffic_source_breakdown applied to it.                        *)
(***************************************************************************)
PipelineSourceLists == {<<"Email">>, <<"Referral", "Email">>}

InitPipeline ==
    /\ AnalyzerIdle
    /\ random_state \in RandomStates
    /\ clock = LastDay - 1
    /\ generated = NoCall
    /\ earlier_generated = NoCall
    /\ historical_data = NoCall
    /\ source_breakdown = NoCall
    /\ InsightsIdle

\* st.session_state.funnel_data = funnel_data; ...;
\* analysis_results = funnel_analyzer.analyze_funnel(funnel_data, threshold)
StoreAndAnalyze(funnel_data, threshold) ==
    /\ session_funnel_data' = funnel_data
    /\ session_threshold' = threshold
    /\ session_results' = analyze_funnel(session_funnel_data', threshold)
    /\ earlier_call' = NoCall
    /\ impact_analysis' = NoCall
    /\ benchmark_comparison' = NoCall
    /\ insights' = NoCall
    /\ UNCHANGED <<funnel_stages, client>>

\* Run Analysis on demo data; nothing is stored when the generator raises
RunDemoAnalysis(time_period, traffic_sources, threshold) ==
    /\ session_funnel_data = <<>>
    /\ \E made \in {generate_funnel_data(time_period, traffic_sources, random_state)} :
           /\ generated' = made
           /\ random_state' = Advance(random_state, made.draws)
           /\ earlier_generated' =
                  IF SameArguments(generated, time_period, traffic_sources) THEN generated
                  ELSE NoCall
           /\ IF Raised(made) THEN UNCHANGED <<analyzer_vars, insights_vars>>
              ELSE StoreAndAnalyze(made.funnel, threshold)
    /\ UNCHANGED <<clock, historical_data, source_breakdown>>

\* the funnel of day d (from 1) of the records of generate_historical_data
DayFunnel(records, d) ==
    [k \in 1..4 |-> [Stage |-> records[4 * (d - 1) + k].stage,
                     Count |-> records[4 * (d - 1) + k].count]]

\* generate_historical_data(days), the funnel of its day d analysed
AnalyzeHistoricalDay(days, midnight, d, threshold) ==
    /\ session_funnel_data = <<>>
    /\ days >= 1 /\ midnight \in 1..days /\ d \in 1..days
    /\ midnight < days => clock < LastDay
    /\ \E made \in {generate_historical_data(days, clock, midnight, random_state)} :
           /\ clock' = IF midnight < days THEN clock + 1 ELSE clock
           /\ historical_data' = [days |-> days, records |-> made.records, returned_on |-> clock']
           /\ random_state' = made.rs
           /\ StoreAndAnalyze(DayFunnel(made.records, d), threshold)
    /\ UNCHANGED <<generated, earlier_generated, source_breakdown>>

\* the session's funnel is the latest funnel of generate_funnel_data or a day of
\* the latest generate_historical_data
FromGenerator(funnel_data) ==
    \/ /\ generated # NoCall
       /\ "funnel" \in DOMAIN generated
       /\ funnel_data = generated.funnel
    \/ /\ historical_data # NoCall
       /\ \E d \in 1..historical_data.days : funnel_data = DayFunnel(historical_data.records, d)

\* generate_traffic_source_breakdown of the session's funnel, the funnel of one
\* of its sources analysed
AnalyzeSourceBreakdown(traffic_sources, source, threshold) ==
    /\ FromGenerator(session_funnel_data)
    /\ source_breakdown = NoCall
    /\ \E made \in {generate_traffic_source_breakdown(session_funnel_data, traffic_sources,
                                                       random_state)} :
           /\ source \in DOMAIN made.breakdown
           /\ source_breakdown' = [funnel_data |-> session_funnel_data,
                                   traffic_sources |-> traffic_sources,
                                   percentage |-> made.percentage,
                                   breakdown |-> made.breakdown]
           /\ StoreAndAnalyze(made.breakdown[source], threshold)
    /\ random_state' = Advance(random_state, Len(traffic_sources))
    /\ UNCHANGED <<clock, generated, earlier_generated, historical_data>>

NextPipeline ==
    \/ \E time_period \in TimePeriods, traffic_sources \in TrafficSourceLists,
          threshold \in AnalysisThresholds :
           RunDemoAnalysis(time_period, traffic_sources, threshold)
    \/ \E days \in 1..MaxDays, midnight \in 1..MaxDays, d \in 1..MaxDays,
          threshold \in AnalysisThresholds :
           AnalyzeHistoricalDay(days, midnight, d, threshold)
    \/ \E traffic_sources \in PipelineSourceLists, source \in SourceNames,
          threshold \in AnalysisThresholds :
           AnalyzeSourceBreakdown(traffic_sources, source, threshold)

SpecPipeline == InitPipeline /\ [][NextPipeline]_vars

\* every count of a funnel mapping is at least 1
AllAtLeastOne(funnel) ==
    \A k \in 1..Len(funnel) : funnel[k].Count >= 1

\* C24: every funnel produced by generate_funnel_data, by a day of
\* generate_historical_data, or by generate_traffic_source_breakdown applied to
\* such a funnel has every stage count, Visitor included, at least 1, so
\* analyze_funnel on it never divides by zero and always returns a result.
C24_GeneratedFunnelsAnalysable ==
    /\ FunnelGenerated => AllAtLeastOne(generated.funnel)
    /\ HistoryReturned =>
           \A i \in 1..Len(historical_data.records) : historical_data.records[i].count >= 1
    /\ BreakdownReturned =>
           \A source \in DOMAIN source_breakdown.breakdown :
               AllAtLeastOne(source_breakdown.breakdown[source])
    /\ session_funnel_data # <<>> =>
           /\ AllAtLeastOne(session_funnel_data)
           /\ Returned(session_results)

\* the funnel of a source, with a count that the floor of 1 raised, was analysed
\* and the analysis returned
C24_Witness ==
    /\ BreakdownReturned
    /\ \E source \in DOMAIN source_breakdown.breakdown :
           /\ session_funnel_data = source_breakdown.breakdown[source]
           /\ \E k \in 1..Len(session_funnel_data) :
                  /\ FTrunc(FMulInt(source_breakdown.percentage[source],
                                     source_breakdown.funnel_data[k].Count)) = 0
                  /\ session_funnel_data[k].Count = 1
    /\ Returned(session_results)

\* C25: for every analysis result of non-negative integer counts, every entry of
\* calculate_potential_impact has potential_count >= current_count:
\* potential_increase and improvement_percentage are never negative for a stage
\* flagged problematic.
C25_PotentialNeverBelowCurrent ==
    (ImpactReturned /\ WellFormed) =>
        \A stage \in DOMAIN impact_analysis.returned :
            LET entry == impact_analysis.returned[stage]
            IN  /\ entry.potential_count >= entry.current_count
                /\ entry.potential_increase >= 0
                /\ ~entry.improvement_percentage.neg

\* the pairs of adjacent stages of the analysed funnel that are named label
PairsNamed(label) ==
    {i \in 2..Len(SessionStages) : StageKey(SessionStages[i - 1], SessionStages[i]) = label}

\* 100 * count / prev_count > tenths / 10, for prev_count > 0
ExactRateExceeds(count, prev_count, tenths) ==
    1000 * count > tenths * prev_count

\* C26: for every pair of adjacent stages that get_benchmark_comparison reports,
\* performance is Above exactly when the exact conversion rate
\* 100 * count[i] / count[i-1] of the analysed funnel is strictly greater than the
\* benchmark, so the rounding of the per-stage table to one decimal does not
\* change the comparison; the Overall entry is compared on the unrounded
\* overall_conversion.
C26_AboveIffExactRateExceedsBenchmark ==
    (ComparisonReturned /\ HasReturned) =>
        \A label \in DOMAIN benchmark_comparison.returned :
            LET entry == benchmark_comparison.returned[label]
                tenths == Round1(entry.benchmark)
            IN  IF label = "Overall"
                THEN entry.performance = "Above" <=>
                         ExactRateExceeds(SessionValues[Len(SessionValues)],
                                          SessionValues[1], tenths)
                ELSE \A i \in PairsNamed(label) :
                         entry.performance = "Above" <=>
                             ExactRateExceeds(SessionValues[i], SessionValues[i - 1], tenths)

====
